---- MODULE Spec2Model ----
(***************************************************************************)
(* Billing state reconciliation of the SaaS dashboard server:             *)
(*   - routes/webhooks.ts      (src/unnamed/part_001)  POST /stripe       *)
(*   - routes/subscriptions.ts (src/unnamed/part_004)  create / cancel /  *)
(*                                                      reactivate        *)
(*   - middleware/auth.ts      (src/unnamed/part_000)                      *)
(*   - client/src/stores/authStore.ts              the browser's auth store *)
(* over the Prisma tables User, Subscription, Payment and UserActivity    *)
(* (schema in src/DEMO_GUIDE.md, initial rows from src/server/src/seed.ts)*)
(*                                                                         *)
(* Every request is an async handler: each `await` (one Prisma call or    *)
(* one Stripe call) is one atomic step, and the steps of requests that    *)
(* are in flight together interleave freely.                              *)
(***************************************************************************)
EXTENDS Integers, Sequences, FiniteSets, TLC

\* ------------------------------------------------------------------ bounds
MaxRequests == 2    \* requests served in one behaviour, all of which may overlap
MaxFaults   == 1    \* storage calls that throw in one behaviour
MaxClock    == 2    \* distinct values the wall clock can show
MaxPayRefs  == 1    \* distinct payment-intent ids the processor sends
MaxTokens   == 2    \* distinct JWTs the auth endpoints hand out

\* --------------------------------------------------------------- constants
NULL == -1          \* SQL NULL / JS null / undefined

SampleUser == 1     \* user@example.com, seeded with a customer id
AdminUser  == 2     \* admin@example.com, seeded without one
Users      == {SampleUser, AdminUser}

CusSample  == 1     \* 'cus_sample_customer'
SubSample  == 1     \* 'sub_sample_subscription'
ProPlan    == 1     \* seeded plan row
ProAmount  == 2999  \* proPlan.amount

SeedPayRefs  == {1, 2}                     \* 'pi_sample_payment_1/2'
EventPayRefs == 3 .. (2 + MaxPayRefs)      \* payment intents of live invoices

SubscriptionStatus ==
  {"ACTIVE", "CANCELED", "INCOMPLETE", "INCOMPLETE_EXPIRED", "PAST_DUE",
   "TRIALING", "UNPAID"}

\* the p-th request the server accepts
Procs == 1 .. MaxRequests

VARIABLES
  users,        \* User.stripeCustomerId per user id
  subs,         \* Subscription rows; a row's id is its index (rows are never deleted)
  payments,     \* Payment rows in insertion order
  activities,   \* UserActivity rows in insertion order
  stripeSubs,   \* processor subscriptions: the customer each was created under (id = index)
  stripeCusts,  \* processor customers: metadata.userId of each (id = index)
  faults,       \* storage failures still to be injected
  nreq,         \* requests accepted so far
  procs,        \* per request: what was asked, position in the handler, locals, response
  store,        \* the browser's auth store: user, token, isAuthenticated, isLoading
  pending       \* the store's async actions that are awaiting their HTTP response

vars == <<users, subs, payments, activities, stripeSubs, stripeCusts,
          faults, nreq, procs, store, pending>>

\* the server side and the browser side
server == <<users, subs, payments, activities, stripeSubs, stripeCusts,
            faults, nreq, procs>>
client == <<store, pending>>

db     == <<users, subs, payments, activities>>
remote == <<stripeSubs, stripeCusts>>

\* ------------------------------------------------------------ pure helpers
\* JS truthiness of a nullable number (null, undefined and 0 are falsy)
Truthy(x) == x # NULL /\ x # 0

\* new Date(seconds * 1000)
ToDate(s) == s * 1000

\* x ? new Date(x * 1000) : null
OptDate(s) == IF Truthy(s) THEN ToDate(s) ELSE NULL

\* `failed_${Date.now()}`: a string no payment-intent id can equal
FailedRef(t) == 100 + t

\* a || b on nullable ids
OrElse(a, b) == IF Truthy(a) THEN a ELSE b

\* variant: a reference that matches nothing falls back to the first row
FindByStripeId_firstRow(ref) ==
  LET hits == {i \in DOMAIN subs : subs[i].stripeSubscriptionId = ref}
  IN  IF hits # {} THEN CHOOSE i \in hits : TRUE
      ELSE IF subs = << >> THEN NULL ELSE 1

\* prisma.subscription.findUnique({ where: { stripeSubscriptionId } })
FindByStripeId(ref) ==
  LET hits == {i \in DOMAIN subs : subs[i].stripeSubscriptionId = ref}
  IN  IF hits = {} THEN NULL ELSE CHOOSE i \in hits : TRUE

\* variant: the lookup is by id alone
FindFirstOwned_anyOwner(id, uid) ==
  IF id \in DOMAIN subs THEN id ELSE NULL

\* prisma.subscription.findFirst({ where: { id, userId } })
FindFirstOwned(id, uid) ==
  IF id \in DOMAIN subs /\ subs[id].userId = uid THEN id ELSE NULL

\* @unique on User.stripeCustomerId: another user already holds customer c
CustomerIdTaken(c, u) == \E v \in Users \ {u} : users[v] = c

\* variant: the column carries no unique index
PaymentRefTaken_noIndex(ref) == FALSE

\* @unique on Payment.stripePaymentId
PaymentRefTaken(ref) == \E i \in DOMAIN payments : payments[i].stripePaymentId = ref

\* ------------------------------------------------------------ seeded rows
SeedSubscription ==
  [stripeSubscriptionId |-> SubSample, userId |-> SampleUser, planId |-> ProPlan,
   status |-> "ACTIVE", currentPeriodStart |-> 1, currentPeriodEnd |-> 31,
   cancelAtPeriodEnd |-> FALSE, canceledAt |-> NULL,
   trialStart |-> NULL, trialEnd |-> NULL]

SeedPayments ==
  << [stripePaymentId |-> 1, amount |-> ProAmount, currency |-> "usd",
      status |-> "SUCCEEDED", userId |-> SampleUser, subscriptionId |-> 1],
     [stripePaymentId |-> 2, amount |-> ProAmount, currency |-> "usd",
      status |-> "SUCCEEDED", userId |-> SampleUser, subscriptionId |-> 1] >>

SeedActivities ==
  << [userId |-> SampleUser, action |-> "USER_LOGIN", ref |-> NULL],
     [userId |-> SampleUser, action |-> "SUBSCRIPTION_CREATED", ref |-> 1],
     [userId |-> SampleUser, action |-> "PAYMENT_SUCCEEDED", ref |-> NULL] >>

\* --------------------------------------------------------- request inputs
\* Stripe.Subscription as carried by customer.subscription.* events.  The
\* processor keeps canceled_at set exactly while the subscription is canceled
\* or scheduled to cancel.
NoSnap ==
  [status |-> "NONE", current_period_start |-> NULL, current_period_end |-> NULL,
   cancel_at_period_end |-> FALSE, canceled_at |-> NULL,
   trial_start |-> NULL, trial_end |-> NULL]

SnapStatuses == {"ACTIVE", "TRIALING", "CANCELED"}

Snapshots ==
  { [status |-> st, current_period_start |-> 2, current_period_end |-> 3,
     cancel_at_period_end |-> c,
     canceled_at |-> IF st = "CANCELED" \/ c THEN 4 ELSE NULL,
     trial_start |-> IF st = "TRIALING" THEN 2 ELSE NULL,
     trial_end |-> IF st = "TRIALING" THEN 3 ELSE NULL]
    : st \in SnapStatuses, c \in BOOLEAN }

\* a signed customer.subscription.* object that lacks its period fields
MalformedSnapshots == { [NoSnap EXCEPT !.status = "ACTIVE"] }

\* new Date(undefined * 1000) is an Invalid Date, which Prisma refuses to write
ValidDates(s) == s.current_period_start # NULL /\ s.current_period_end # NULL

NoReq ==
  [kind |-> "none", sig |-> TRUE, data |-> TRUE, ref |-> NULL, snap |-> NoSnap,
   payment_intent |-> NULL, amount_paid |-> 0, amount_due |-> 0, currency |-> "none",
   customer |-> NULL, metaUser |-> NULL,
   user |-> NULL, custAtAuth |-> NULL, planId |-> NULL, id |-> NULL,
   cancelAtPeriodEnd |-> FALSE]

NoLoc == [sub |-> NULL, status |-> "NONE", customerId |-> NULL, stripeSub |-> NULL,
          stripeStatus |-> "NONE"]

IdleProc == [pc |-> "idle", req |-> NoReq, loc |-> NoLoc, resp |-> 0, err |-> "none"]

\* external subscription ids an event can name
EventSubRefs == DOMAIN stripeSubs

\* the event types the switch of POST /stripe has a case for
\* ("customer.subscription.updated" stands for .created and .updated, which
\* share one case body)
HandledTypes ==
  {"customer.subscription.updated", "customer.subscription.deleted",
   "invoice.payment_succeeded", "invoice.payment_failed", "customer.created"}

StripeEvents ==
       { [NoReq EXCEPT !.kind = "customer.subscription.updated", !.ref = r, !.snap = s]
           : r \in EventSubRefs, s \in Snapshots \cup MalformedSnapshots }
  \cup { [NoReq EXCEPT !.kind = "customer.subscription.deleted", !.ref = r]
           : r \in EventSubRefs }
  \cup { [NoReq EXCEPT !.kind = "invoice.payment_succeeded", !.ref = r,
            !.payment_intent = pi, !.amount_paid = ProAmount, !.amount_due = ProAmount,
            !.currency = "usd"]
           : r \in EventSubRefs \cup {NULL}, pi \in EventPayRefs }
  \cup { [NoReq EXCEPT !.kind = "invoice.payment_failed", !.ref = r,
            !.payment_intent = pi, !.amount_paid = 0, !.amount_due = ProAmount,
            !.currency = "usd"]
           : r \in EventSubRefs \cup {NULL}, pi \in EventPayRefs \cup {NULL} }
  \cup { [NoReq EXCEPT !.kind = "customer.created", !.customer = c,
            !.metaUser = stripeCusts[c]] : c \in DOMAIN stripeCusts }
  \cup { [NoReq EXCEPT !.kind = "charge.refunded"] }
  \* a signed body without its `data` member
  \cup { [NoReq EXCEPT !.kind = k, !.data = FALSE]
           : k \in HandledTypes \cup {"charge.refunded"} }

\* the store as create() builds it, nothing persisted yet
FreshStore ==
  [user |-> NULL, token |-> NULL, isAuthenticated |-> FALSE, isLoading |-> TRUE]

\* ------------------------------------------------------------------- Init
Init ==
  /\ users = [u \in Users |-> IF u = SampleUser THEN CusSample ELSE NULL]
  /\ subs = << SeedSubscription >>
  /\ payments = SeedPayments
  /\ activities = SeedActivities
  \* the processor holds SubSample and one subscription this app never created
  /\ stripeSubs = << CusSample, NULL >>
  /\ stripeCusts = << NULL >>
  /\ faults = MaxFaults
  /\ nreq = 0
  /\ procs = [p \in Procs |-> IdleProc]
  /\ store = FreshStore
  /\ pending = {}

\* ----------------------------------------------------- scheduling helpers
\* requests are numbered in the order they arrive
CanBegin(p) ==
  /\ p = nreq + 1
  /\ procs[p].pc = "idle"

At(p, kind, pc) == procs[p].req.kind = kind /\ procs[p].pc = pc

\* outcomes of one storage call: TRUE = it throws
DbThrows == IF faults > 0 THEN {FALSE, TRUE} ELSE {FALSE}

Spend(f) == faults' = IF f THEN faults - 1 ELSE faults

Goto(p, pc) == [procs EXCEPT ![p].pc = pc]

\* err names the call that threw, as the logged error does ("none": no error)
Finish(p, resp, err) ==
  [procs EXCEPT ![p].pc = "done", ![p].resp = resp, ![p].err = err]

\* a route's catch: logger.error(...), res.status(500).json({ error: 'Server error' })
Throw(p) == Finish(p, 500, procs[p].pc)

StripeCalls == {"customers.create", "paymentMethods.attach", "customers.update",
                "subscriptions.create", "stripe"}

\* what Date.now() / new Date() can return
Now == 1 .. MaxClock

\* ======================================================================
\* routes/webhooks.ts
\* ======================================================================

\* variant: a delivery that fails verification is acknowledged
Unverified_acknowledged ==
  [IdleProc EXCEPT !.req.kind = "unverified", !.req.sig = FALSE,
                   !.pc = "done", !.resp = 200, !.err = "signature"]

\* constructEvent throws: logger.error, res.status(400), return
Unverified ==
  [IdleProc EXCEPT !.req.kind = "unverified", !.req.sig = FALSE,
                   !.pc = "done", !.resp = 400, !.err = "signature"]

\* variant: an event type without a case falls into the deletion handler
Dispatch_defaultDeletes(ev) ==
  LET proc == [IdleProc EXCEPT !.req = ev]
  IN  IF ev.kind \notin HandledTypes THEN [proc EXCEPT !.pc = "update"]
      ELSE [proc EXCEPT !.pc = "done", !.resp = 200]

\* the switch on event.type, each handler run up to its first await.
\* event.data.object is evaluated in the switch, outside the handlers' own
\* try/catch: without `data` it throws into the route's catch, which answers 500.
Dispatch(ev) ==
  LET proc == [IdleProc EXCEPT !.req = ev]
  IN  IF ev.kind \notin HandledTypes THEN [proc EXCEPT !.pc = "done", !.resp = 200]
      ELSE IF ~ev.data THEN [proc EXCEPT !.pc = "done", !.resp = 500, !.err = "dispatch"]
      ELSE CASE ev.kind = "customer.subscription.updated" ->
                  [proc EXCEPT !.pc = "findUnique"]
             [] ev.kind = "customer.subscription.deleted" ->
                  [proc EXCEPT !.pc = "update"]
             [] ev.kind \in {"invoice.payment_succeeded", "invoice.payment_failed"} ->
                  IF Truthy(ev.ref) THEN [proc EXCEPT !.pc = "findUnique"]
                  ELSE [proc EXCEPT !.pc = "done", !.resp = 200]
             [] ev.kind = "customer.created" ->
                  IF Truthy(ev.metaUser) THEN [proc EXCEPT !.pc = "update"]
                  ELSE [proc EXCEPT !.pc = "done", !.resp = 200]

\* router.post('/stripe'): constructEvent verifies the signature; a bad one is
\* answered 400 before any handler runs.  A verified event is dispatched on
\* its type.
postStripe(p) ==
  /\ CanBegin(p)
  /\ nreq' = nreq + 1
  /\ \E ev \in StripeEvents, sig \in BOOLEAN :
       procs' = [procs EXCEPT ![p] = IF sig THEN Dispatch(ev) ELSE Unverified]
  /\ UNCHANGED <<db, remote, faults, client>>

\* the handlers catch every error and log it, so a verified delivery is always
\* answered { received: true }
Ack(p, err) == Finish(p, 200, err)

\* variant: a snapshot for an unknown subscription is backfilled as a new row
handleSubscriptionUpdate_findUnique_backfill(p) ==
  /\ At(p, "customer.subscription.updated", "findUnique")
  /\ LET i == FindByStripeId(procs[p].req.ref)
     IN  IF i = NULL
         THEN /\ subs' = Append(subs, [SeedSubscription EXCEPT
                                         !.stripeSubscriptionId = procs[p].req.ref])
              /\ procs' = Ack(p, "none")
         ELSE /\ subs' = subs
              /\ procs' = [Goto(p, "update") EXCEPT ![p].loc.sub = i]
  /\ UNCHANGED <<users, payments, activities, remote, faults, nreq, client>>

\* handleSubscriptionUpdate: prisma.subscription.findUnique
handleSubscriptionUpdate_findUnique(p) ==
  /\ At(p, "customer.subscription.updated", "findUnique")
  /\ \E f \in DbThrows :
       /\ Spend(f)
       /\ procs' = IF f THEN Ack(p, procs[p].pc)
                   ELSE LET i == FindByStripeId(procs[p].req.ref)
                        IN  IF i = NULL THEN Ack(p, "none")
                            ELSE [Goto(p, "update") EXCEPT ![p].loc.sub = i]
  /\ UNCHANGED <<db, remote, nreq, client>>

\* variant: a null canceled_at is passed as undefined, which keeps the column
SnapshotData_keepCanceledAt(row, s) ==
  [row EXCEPT !.status = s.status,
              !.currentPeriodStart = ToDate(s.current_period_start),
              !.currentPeriodEnd = ToDate(s.current_period_end),
              !.cancelAtPeriodEnd = s.cancel_at_period_end,
              !.canceledAt = IF Truthy(s.canceled_at) THEN ToDate(s.canceled_at)
                             ELSE row.canceledAt,
              !.trialStart = OptDate(s.trial_start),
              !.trialEnd = OptDate(s.trial_end)]

\* the data of handleSubscriptionUpdate's prisma.subscription.update
SnapshotData(row, s) ==
  [row EXCEPT !.status = s.status,
              !.currentPeriodStart = ToDate(s.current_period_start),
              !.currentPeriodEnd = ToDate(s.current_period_end),
              !.cancelAtPeriodEnd = s.cancel_at_period_end,
              !.canceledAt = OptDate(s.canceled_at),
              !.trialStart = OptDate(s.trial_start),
              !.trialEnd = OptDate(s.trial_end)]

\* handleSubscriptionUpdate: prisma.subscription.update where stripeSubscriptionId
handleSubscriptionUpdate_update(p) ==
  /\ At(p, "customer.subscription.updated", "update")
  /\ \E f \in DbThrows :
       /\ Spend(f)
       /\ LET i == FindByStripeId(procs[p].req.ref)
          IN  IF f \/ i = NULL \/ ~ValidDates(procs[p].req.snap)
              THEN /\ procs' = Ack(p, procs[p].pc)
                   /\ subs' = subs
              ELSE /\ subs' = [subs EXCEPT ![i] = SnapshotData(subs[i], procs[p].req.snap)]
                   /\ procs' = Ack(p, "none")
  /\ UNCHANGED <<users, payments, activities, remote, nreq, client>>

\* variant: the row is removed
handleSubscriptionDeleted_hardDelete(p) ==
  /\ At(p, "customer.subscription.deleted", "update")
  /\ subs' = SelectSeq(subs, LAMBDA row : row.stripeSubscriptionId # procs[p].req.ref)
  /\ procs' = Ack(p, "none")
  /\ UNCHANGED <<users, payments, activities, remote, faults, nreq, client>>

\* variant: the billing period is closed at the processing time as well
handleSubscriptionDeleted_closesPeriod(p) ==
  /\ At(p, "customer.subscription.deleted", "update")
  /\ \E t \in Now :
       LET i == FindByStripeId(procs[p].req.ref)
       IN  IF i = NULL
           THEN /\ procs' = Ack(p, procs[p].pc)
                /\ subs' = subs
           ELSE /\ subs' = [subs EXCEPT ![i].status = "CANCELED", ![i].canceledAt = t,
                                        ![i].currentPeriodEnd = t]
                /\ procs' = Ack(p, "none")
  /\ UNCHANGED <<users, payments, activities, remote, faults, nreq, client>>

\* handleSubscriptionDeleted: prisma.subscription.update, which throws when no
\* row has that stripeSubscriptionId
handleSubscriptionDeleted(p) ==
  /\ At(p, "customer.subscription.deleted", "update")
  /\ \E f \in DbThrows, t \in Now :
       /\ Spend(f)
       /\ LET i == FindByStripeId(procs[p].req.ref)
          IN  IF f \/ i = NULL
              THEN /\ procs' = Ack(p, procs[p].pc)
                   /\ subs' = subs
              ELSE /\ subs' = [subs EXCEPT ![i].status = "CANCELED", ![i].canceledAt = t]
                   /\ procs' = Ack(p, "none")
  /\ UNCHANGED <<users, payments, activities, remote, nreq, client>>

\* handlePaymentSucceeded / handlePaymentFailed: prisma.subscription.findUnique
handlePayment_findUnique(p) ==
  /\ procs[p].req.kind \in {"invoice.payment_succeeded", "invoice.payment_failed"}
  /\ procs[p].pc = "findUnique"
  /\ \E f \in DbThrows :
       /\ Spend(f)
       /\ procs' = IF f THEN Ack(p, procs[p].pc)
                   ELSE LET i == FindByStripeId(procs[p].req.ref)
                        IN  IF i = NULL THEN Ack(p, "none")
                            ELSE [Goto(p, "payment.create") EXCEPT ![p].loc.sub = i]
  /\ UNCHANGED <<db, remote, nreq, client>>

\* variant: a rejected duplicate is swallowed and the handler goes on to the
\* activity insert
PaymentCreate_swallow(p, row, f) ==
  IF f
  THEN /\ payments' = payments
       /\ procs' = Ack(p, procs[p].pc)
  ELSE /\ payments' = IF PaymentRefTaken(row.stripePaymentId) THEN payments
                      ELSE Append(payments, row)
       /\ procs' = Goto(p, "userActivity.create")

\* prisma.payment.create: the unique index on stripePaymentId rejects a second
\* row with the same reference
PaymentCreate(p, row, f) ==
  IF f \/ PaymentRefTaken(row.stripePaymentId)
  THEN /\ payments' = payments
       /\ procs' = Ack(p, procs[p].pc)
  ELSE /\ payments' = Append(payments, row)
       /\ procs' = Goto(p, "userActivity.create")

\* variant: the row records the amount due and is left PENDING
handlePaymentSucceeded_paymentCreate_pending(p) ==
  /\ At(p, "invoice.payment_succeeded", "payment.create")
  /\ \E f \in DbThrows :
       /\ Spend(f)
       /\ LET r == procs[p].req
              s == procs[p].loc.sub
          IN  PaymentCreate(p, [stripePaymentId |-> r.payment_intent,
                                amount |-> r.amount_due, currency |-> r.currency,
                                status |-> "PENDING", userId |-> subs[s].userId,
                                subscriptionId |-> s], f)
  /\ UNCHANGED <<users, subs, activities, remote, nreq, client>>

\* handlePaymentSucceeded: prisma.payment.create
handlePaymentSucceeded_paymentCreate(p) ==
  /\ At(p, "invoice.payment_succeeded", "payment.create")
  /\ \E f \in DbThrows :
       /\ Spend(f)
       /\ LET r == procs[p].req
              s == procs[p].loc.sub
          IN  PaymentCreate(p, [stripePaymentId |-> r.payment_intent,
                                amount |-> r.amount_paid, currency |-> r.currency,
                                status |-> "SUCCEEDED", userId |-> subs[s].userId,
                                subscriptionId |-> s], f)
  /\ UNCHANGED <<users, subs, activities, remote, nreq, client>>

\* handlePaymentFailed: prisma.payment.create
handlePaymentFailed_paymentCreate(p) ==
  /\ At(p, "invoice.payment_failed", "payment.create")
  /\ \E f \in DbThrows, t \in Now :
       /\ Spend(f)
       /\ LET r == procs[p].req
              s == procs[p].loc.sub
          IN  PaymentCreate(p, [stripePaymentId |-> OrElse(r.payment_intent, FailedRef(t)),
                                amount |-> r.amount_due, currency |-> r.currency,
                                status |-> "FAILED", userId |-> subs[s].userId,
                                subscriptionId |-> s], f)
  /\ UNCHANGED <<users, subs, activities, remote, nreq, client>>

\* handlePaymentSucceeded / handlePaymentFailed: prisma.userActivity.create
handlePayment_userActivityCreate(p) ==
  /\ procs[p].req.kind \in {"invoice.payment_succeeded", "invoice.payment_failed"}
  /\ procs[p].pc = "userActivity.create"
  /\ \E f \in DbThrows :
       /\ Spend(f)
       /\ IF f
          THEN /\ activities' = activities
               /\ procs' = Ack(p, procs[p].pc)
          ELSE /\ activities' = Append(activities,
                    [userId |-> subs[procs[p].loc.sub].userId,
                     action |-> IF procs[p].req.kind = "invoice.payment_succeeded"
                                THEN "PAYMENT_SUCCEEDED" ELSE "PAYMENT_FAILED",
                     ref    |-> procs[p].req.payment_intent])
               /\ procs' = Ack(p, "none")
  /\ UNCHANGED <<users, subs, payments, remote, nreq, client>>

\* handleCustomerCreated: prisma.user.update
handleCustomerCreated(p) ==
  /\ At(p, "customer.created", "update")
  /\ \E f \in DbThrows :
       /\ Spend(f)
       /\ IF \/ f
             \/ procs[p].req.metaUser \notin Users
             \/ CustomerIdTaken(procs[p].req.customer, procs[p].req.metaUser)
          THEN /\ users' = users
               /\ procs' = Ack(p, procs[p].pc)
          ELSE /\ users' = [users EXCEPT ![procs[p].req.metaUser] = procs[p].req.customer]
               /\ procs' = Ack(p, "none")
  /\ UNCHANGED <<subs, payments, activities, remote, nreq, client>>

\* ======================================================================
\* middleware/auth.ts and routes/subscriptions.ts
\* ======================================================================

\* auth: jwt.verify, then prisma.user.findUnique; req.user is the row as read
\* here, stripeCustomerId included
Authed(kind, u) ==
  [IdleProc EXCEPT !.req = [NoReq EXCEPT !.kind = kind, !.user = u,
                                         !.custAtAuth = users[u]]]

Unauthorized(kind) ==
  [IdleProc EXCEPT !.req = [NoReq EXCEPT !.kind = kind],
                   !.pc = "done", !.resp = 401, !.err = "auth"]

\* outcomes of one processor call: TRUE = it throws
StripeThrows == BOOLEAN

\* router.post('/create', auth, ...)
postCreate(p) ==
  /\ CanBegin(p)
  /\ nreq' = nreq + 1
  /\ \E u \in Users \cup {NULL}, plan \in {ProPlan, NULL} :
       procs' = [procs EXCEPT ![p] =
         IF u = NULL THEN Unauthorized("create")
         ELSE [Authed("create", u) EXCEPT !.req.planId = plan, !.pc = "plan.findUnique"]]
  /\ UNCHANGED <<db, remote, faults, client>>

\* prisma.plan.findUnique
create_planFindUnique(p) ==
  /\ At(p, "create", "plan.findUnique")
  /\ \E f \in DbThrows :
       /\ Spend(f)
       /\ procs' =
            IF f THEN Throw(p)
            ELSE IF procs[p].req.planId # ProPlan THEN Finish(p, 404, "none")
            ELSE IF ~Truthy(procs[p].req.custAtAuth) THEN Goto(p, "customers.create")
            ELSE [Goto(p, "paymentMethods.attach")
                    EXCEPT ![p].loc.customerId = procs[p].req.custAtAuth]
  /\ UNCHANGED <<db, remote, nreq, client>>

\* stripe.customers.create
create_customersCreate(p) ==
  /\ At(p, "create", "customers.create")
  /\ \E f \in StripeThrows :
       IF f
       THEN /\ procs' = Throw(p)
            /\ stripeCusts' = stripeCusts
       ELSE /\ stripeCusts' = Append(stripeCusts, procs[p].req.user)
            /\ procs' = [Goto(p, "user.update")
                           EXCEPT ![p].loc.customerId = Len(stripeCusts) + 1]
  /\ UNCHANGED <<db, stripeSubs, faults, nreq, client>>

\* prisma.user.update({ data: { stripeCustomerId: customerId } })
create_userUpdate(p) ==
  /\ At(p, "create", "user.update")
  /\ \E f \in DbThrows :
       /\ Spend(f)
       /\ IF f \/ CustomerIdTaken(procs[p].loc.customerId, procs[p].req.user)
          THEN /\ users' = users
               /\ procs' = Throw(p)
          ELSE /\ users' = [users EXCEPT ![procs[p].req.user] = procs[p].loc.customerId]
               /\ procs' = Goto(p, "paymentMethods.attach")
  /\ UNCHANGED <<subs, payments, activities, remote, nreq, client>>

\* stripe.paymentMethods.attach
create_paymentMethodsAttach(p) ==
  /\ At(p, "create", "paymentMethods.attach")
  /\ \E f \in StripeThrows :
       procs' = IF f THEN Throw(p) ELSE Goto(p, "customers.update")
  /\ UNCHANGED <<db, remote, faults, nreq, client>>

\* stripe.customers.update (default payment method)
create_customersUpdate(p) ==
  /\ At(p, "create", "customers.update")
  /\ \E f \in StripeThrows :
       procs' = IF f THEN Throw(p) ELSE Goto(p, "subscriptions.create")
  /\ UNCHANGED <<db, remote, faults, nreq, client>>

\* variant: the local row is written before the processor is asked
create_subscriptionsCreate_rowFirst(p) ==
  /\ At(p, "create", "subscriptions.create")
  /\ subs' = Append(subs,
        [stripeSubscriptionId |-> Len(stripeSubs) + 1,
         userId |-> procs[p].req.user, planId |-> procs[p].req.planId,
         status |-> "INCOMPLETE",
         currentPeriodStart |-> ToDate(2), currentPeriodEnd |-> ToDate(3),
         cancelAtPeriodEnd |-> FALSE, canceledAt |-> NULL,
         trialStart |-> NULL, trialEnd |-> NULL])
  /\ procs' = Throw(p)
  /\ UNCHANGED <<users, payments, activities, remote, faults, nreq, client>>

\* stripe.subscriptions.create with payment_behavior 'default_incomplete'
create_subscriptionsCreate(p) ==
  /\ At(p, "create", "subscriptions.create")
  /\ \E f \in StripeThrows, st \in {"INCOMPLETE", "ACTIVE"} :
       IF f
       THEN /\ procs' = Throw(p)
            /\ stripeSubs' = stripeSubs
       ELSE /\ stripeSubs' = Append(stripeSubs, procs[p].loc.customerId)
            /\ procs' = [Goto(p, "subscription.create")
                           EXCEPT ![p].loc.stripeSub = Len(stripeSubs) + 1,
                                  ![p].loc.stripeStatus = st]
  /\ UNCHANGED <<db, stripeCusts, faults, nreq, client>>

\* prisma.subscription.create
create_subscriptionCreate(p) ==
  /\ At(p, "create", "subscription.create")
  /\ \E f \in DbThrows :
       /\ Spend(f)
       /\ IF f \/ FindByStripeId(procs[p].loc.stripeSub) # NULL
          THEN /\ subs' = subs
               /\ procs' = Throw(p)
          ELSE /\ subs' = Append(subs,
                    [stripeSubscriptionId |-> procs[p].loc.stripeSub,
                     userId |-> procs[p].req.user, planId |-> procs[p].req.planId,
                     status |-> procs[p].loc.stripeStatus,
                     currentPeriodStart |-> ToDate(2), currentPeriodEnd |-> ToDate(3),
                     cancelAtPeriodEnd |-> FALSE, canceledAt |-> NULL,
                     trialStart |-> NULL, trialEnd |-> NULL])
               /\ procs' = [Goto(p, "userActivity.create") EXCEPT ![p].loc.sub = Len(subs) + 1]
  /\ UNCHANGED <<users, payments, activities, remote, nreq, client>>

\* variant: the command answers without writing to the audit log
Command_userActivityCreate_silent(p, kind, action) ==
  /\ At(p, kind, "userActivity.create")
  /\ procs' = Finish(p, 200, "none")
  /\ UNCHANGED <<db, remote, faults, nreq, client>>

\* prisma.userActivity.create of a subscription command; a throw reaches the
\* route's catch like any other
Command_userActivityCreate(p, kind, action) ==
  /\ At(p, kind, "userActivity.create")
  /\ \E f \in DbThrows :
       /\ Spend(f)
       /\ IF f
          THEN /\ activities' = activities
               /\ procs' = Throw(p)
          ELSE /\ activities' = Append(activities,
                    [userId |-> procs[p].req.user, action |-> action,
                     ref |-> procs[p].loc.sub])
               /\ procs' = Finish(p, 200, "none")
  /\ UNCHANGED <<users, subs, payments, remote, nreq, client>>

create_userActivityCreate(p) ==
  Command_userActivityCreate(p, "create", "SUBSCRIPTION_CREATED")

\* subscription ids a command can name: every row, and one id that no row has
CommandSubIds == 1 .. (Len(subs) + 1)

\* router.post('/:id/cancel', auth, ...); cancelAtPeriodEnd defaults to true
postCancel(p) ==
  /\ CanBegin(p)
  /\ nreq' = nreq + 1
  /\ \E u \in Users \cup {NULL}, id \in CommandSubIds, c \in BOOLEAN :
       procs' = [procs EXCEPT ![p] =
         IF u = NULL THEN Unauthorized("cancel")
         ELSE [Authed("cancel", u) EXCEPT !.req.id = id, !.req.cancelAtPeriodEnd = c,
                                          !.pc = "findFirst"]]
  /\ UNCHANGED <<db, remote, faults, client>>

\* router.post('/:id/reactivate', auth, ...)
postReactivate(p) ==
  /\ CanBegin(p)
  /\ nreq' = nreq + 1
  /\ \E u \in Users \cup {NULL}, id \in CommandSubIds :
       procs' = [procs EXCEPT ![p] =
         IF u = NULL THEN Unauthorized("reactivate")
         ELSE [Authed("reactivate", u) EXCEPT !.req.id = id, !.pc = "findFirst"]]
  /\ UNCHANGED <<db, remote, faults, client>>

\* cancel / reactivate: prisma.subscription.findFirst({ where: { id, userId } });
\* the row read here (its status too) is what the rest of the handler uses
Command_findFirst(p) ==
  /\ procs[p].req.kind \in {"cancel", "reactivate"}
  /\ procs[p].pc = "findFirst"
  /\ \E f \in DbThrows :
       /\ Spend(f)
       /\ procs' =
            IF f THEN Throw(p)
            ELSE LET i == FindFirstOwned(procs[p].req.id, procs[p].req.user)
                 IN  IF i = NULL THEN Finish(p, 404, "none")
                     ELSE [Goto(p, "stripe") EXCEPT ![p].loc.sub = i,
                                                    ![p].loc.status = subs[i].status,
                                                    ![p].loc.stripeSub = subs[i].stripeSubscriptionId]
  /\ UNCHANGED <<db, remote, nreq, client>>

\* variant: the local row is updated before the processor is asked
Command_stripe_rowFirst(p) ==
  /\ procs[p].req.kind \in {"cancel", "reactivate"}
  /\ procs[p].pc = "stripe"
  /\ subs' = [subs EXCEPT ![procs[p].loc.sub].cancelAtPeriodEnd =
                             (procs[p].req.kind = "cancel")]
  /\ \E f \in StripeThrows :
       procs' = IF f THEN Throw(p) ELSE Goto(p, "userActivity.create")
  /\ UNCHANGED <<users, payments, activities, remote, faults, nreq, client>>

\* cancel: stripe.subscriptions.update({ cancel_at_period_end: true }) or
\* stripe.subscriptions.cancel; reactivate: stripe.subscriptions.update({
\* cancel_at_period_end: false })
Command_stripe(p) ==
  /\ procs[p].req.kind \in {"cancel", "reactivate"}
  /\ procs[p].pc = "stripe"
  /\ \E f \in StripeThrows :
       procs' = IF f THEN Throw(p) ELSE Goto(p, "subscription.update")
  /\ UNCHANGED <<db, remote, faults, nreq, client>>

\* variant: an immediate cancel keeps the status that was read
CancelData_keepStatus(row, cancelAtPeriodEnd, statusRead, t) ==
  [row EXCEPT !.cancelAtPeriodEnd = cancelAtPeriodEnd,
              !.canceledAt = IF cancelAtPeriodEnd THEN row.canceledAt ELSE t,
              !.status = statusRead]

\* the data of cancel's prisma.subscription.update; canceledAt: undefined leaves
\* the column as it is
CancelData(row, cancelAtPeriodEnd, statusRead, t) ==
  [row EXCEPT !.cancelAtPeriodEnd = cancelAtPeriodEnd,
              !.canceledAt = IF cancelAtPeriodEnd THEN row.canceledAt ELSE t,
              !.status = IF cancelAtPeriodEnd THEN statusRead ELSE "CANCELED"]

\* cancel: prisma.subscription.update({ where: { id } })
cancel_subscriptionUpdate(p) ==
  /\ At(p, "cancel", "subscription.update")
  /\ \E f \in DbThrows, t \in Now :
       /\ Spend(f)
       /\ LET i == procs[p].loc.sub
              c == procs[p].req.cancelAtPeriodEnd
          IN  IF f
              THEN /\ procs' = Throw(p)
                   /\ subs' = subs
              ELSE /\ subs' = [subs EXCEPT ![i] = CancelData(subs[i], c, procs[p].loc.status, t)]
                   /\ procs' = Goto(p, "userActivity.create")
  /\ UNCHANGED <<users, payments, activities, remote, nreq, client>>

cancel_userActivityCreate(p) ==
  Command_userActivityCreate(p, "cancel", "SUBSCRIPTION_CANCELED")

\* variant: only canceled-at is cleared
ReactivateData_keepFlag(row) ==
  [row EXCEPT !.canceledAt = NULL]

\* the data of reactivate's prisma.subscription.update
ReactivateData(row) ==
  [row EXCEPT !.cancelAtPeriodEnd = FALSE, !.canceledAt = NULL]

\* reactivate: prisma.subscription.update({ where: { id } })
reactivate_subscriptionUpdate(p) ==
  /\ At(p, "reactivate", "subscription.update")
  /\ \E f \in DbThrows :
       /\ Spend(f)
       /\ IF f
          THEN /\ procs' = Throw(p)
               /\ subs' = subs
          ELSE /\ subs' = [subs EXCEPT ![procs[p].loc.sub] = ReactivateData(@)]
               /\ procs' = Goto(p, "userActivity.create")
  /\ UNCHANGED <<users, payments, activities, remote, nreq, client>>

reactivate_userActivityCreate(p) ==
  Command_userActivityCreate(p, "reactivate", "SUBSCRIPTION_REACTIVATED")

\* ------------------------------------------------------------------- Next
Next ==
  \E p \in Procs :
    \/ postStripe(p)
    \/ handleSubscriptionUpdate_findUnique(p)
    \/ handleSubscriptionUpdate_update(p)
    \/ handleSubscriptionDeleted(p)
    \/ handlePayment_findUnique(p)
    \/ handlePaymentSucceeded_paymentCreate(p)
    \/ handlePaymentFailed_paymentCreate(p)
    \/ handlePayment_userActivityCreate(p)
    \/ handleCustomerCreated(p)
    \/ postCreate(p)
    \/ create_planFindUnique(p)
    \/ create_customersCreate(p)
    \/ create_userUpdate(p)
    \/ create_paymentMethodsAttach(p)
    \/ create_customersUpdate(p)
    \/ create_subscriptionsCreate(p)
    \/ create_subscriptionCreate(p)
    \/ create_userActivityCreate(p)
    \/ postCancel(p)
    \/ postReactivate(p)
    \/ Command_findFirst(p)
    \/ Command_stripe(p)
    \/ cancel_subscriptionUpdate(p)
    \/ cancel_userActivityCreate(p)
    \/ reactivate_subscriptionUpdate(p)
    \/ reactivate_userActivityCreate(p)

Spec == Init /\ [][Next]_vars

\* the same program on storage that never throws
InitNoFault ==
  /\ users = [u \in Users |-> IF u = SampleUser THEN CusSample ELSE NULL]
  /\ subs = << SeedSubscription >>
  /\ payments = SeedPayments
  /\ activities = SeedActivities
  /\ stripeSubs = << CusSample, NULL >>
  /\ stripeCusts = << NULL >>
  /\ faults = 0
  /\ nreq = 0
  /\ procs = [p \in Procs |-> IdleProc]
  /\ store = FreshStore
  /\ pending = {}

SpecNoFault == InitNoFault /\ [][Next]_vars


\* ======================================================================
\* client/src/stores/authStore.ts
\* ======================================================================
\* tokens the auth endpoints can return
Tokens == 1 .. MaxTokens

\* statuses of a failed HTTP response
ErrorStatuses == {401, 500}

\* set({ user: null, token: null, isAuthenticated: false, isLoading: false })
LoggedOut ==
  [user |-> NULL, token |-> NULL, isAuthenticated |-> FALSE, isLoading |-> FALSE]

\* an async action starts its request; one request of each action is followed
Await(call) ==
  /\ call \notin pending
  /\ pending' = pending \cup {call}

Settle(call) ==
  /\ call \in pending
  /\ pending' = pending \ {call}

\* login / register: the response arrives with { token, user }
SessionResolve(call) ==
  /\ Settle(call)
  /\ \E t \in Tokens, u \in Users :
       store' = [user |-> u, token |-> t, isAuthenticated |-> TRUE, isLoading |-> FALSE]
  /\ UNCHANGED server

\* login / register: the request fails; a 401 passes through the response
\* interceptor, which calls logout(), before the action rethrows
SessionReject(call) ==
  /\ Settle(call)
  /\ \E status \in ErrorStatuses :
       store' = IF status = 401 THEN LoggedOut ELSE store
  /\ UNCHANGED server

\* login: await axios.post('/auth/login')
login_post ==
  /\ Await("login")
  /\ UNCHANGED <<store, server>>

login_resolve == SessionResolve("login")

login_reject == SessionReject("login")

\* register: await axios.post('/auth/register')
register_post ==
  /\ Await("register")
  /\ UNCHANGED <<store, server>>

register_resolve == SessionResolve("register")

register_reject == SessionReject("register")

\* logout()
logout ==
  /\ store' = LoggedOut
  /\ UNCHANGED <<pending, server>>

\* the response interceptor on a 401 of any other request of the app
intercept401 ==
  /\ store' = LoggedOut
  /\ UNCHANGED <<pending, server>>

\* updateUser(user): set({ user })
updateUser ==
  /\ \E u \in Users : store' = [store EXCEPT !.user = u]
  /\ UNCHANGED <<pending, server>>

\* initialize(): without a token it only clears isLoading; with one it awaits
\* axios.get('/auth/me')
initialize ==
  /\ IF store.token = NULL
     THEN /\ store' = [store EXCEPT !.isLoading = FALSE]
          /\ pending' = pending
     ELSE /\ Await("initialize")
          /\ store' = store
  /\ UNCHANGED server

\* initialize: /auth/me answered; set({ user, isAuthenticated: true, isLoading: false })
initialize_resolve ==
  /\ Settle("initialize")
  /\ \E u \in Users :
       store' = [store EXCEPT !.user = u, !.isAuthenticated = TRUE, !.isLoading = FALSE]
  /\ UNCHANGED server

\* initialize: /auth/me failed; the catch clears the session
initialize_reject ==
  /\ Settle("initialize")
  /\ store' = LoggedOut
  /\ UNCHANGED server

\* the page is loaded again: persist restores token, user and isAuthenticated
\* (partialize) into a new store, and the requests of the old page are gone
rehydrate ==
  /\ store' = [store EXCEPT !.isLoading = TRUE]
  /\ pending' = {}
  /\ UNCHANGED server

NextClient ==
  \/ login_post
  \/ login_resolve
  \/ login_reject
  \/ register_post
  \/ register_resolve
  \/ register_reject
  \/ logout
  \/ intercept401
  \/ updateUser
  \/ initialize
  \/ initialize_resolve
  \/ initialize_reject
  \/ rehydrate

SpecClient == Init /\ [][NextClient]_vars

\* ======================================================================
\* Properties
\* ======================================================================
Done(p)     == procs[p].pc = "done"
InFlight(p) == procs[p].pc \notin {"idle", "done"}

PaymentRows(r) ==
  Cardinality({i \in DOMAIN payments : payments[i].stripePaymentId = r})

ActivityRows(action, r) ==
  Cardinality({i \in DOMAIN activities :
                 activities[i].action = action /\ activities[i].ref = r})

\* a finished delivery of invoice.payment_succeeded for payment intent r whose
\* subscription was found
SucceededDelivered(p, r) ==
  /\ Done(p)
  /\ procs[p].req.kind = "invoice.payment_succeeded"
  /\ procs[p].req.payment_intent = r
  /\ procs[p].loc.sub # NULL

\* ---------------------------------------------------------------------
\* C1: once every delivery of an invoice.payment_succeeded event for payment
\* intent r (subscription known locally) has finished, however the deliveries
\* were interleaved, there is exactly one Payment row with reference r and
\* exactly one PAYMENT_SUCCEEDED activity for r.  Storage does not throw here
\* (SpecNoFault), and r was not taken before by a payment-failed event.
C1_SucceededOnce ==
  \A r \in EventPayRefs :
    ( /\ \E p \in Procs : SucceededDelivered(p, r)
      /\ \A p \in Procs : InFlight(p) => procs[p].req.payment_intent # r
      /\ \A i \in DOMAIN payments :
           payments[i].stripePaymentId = r => payments[i].status # "FAILED" )
    => /\ PaymentRows(r) = 1
       /\ ActivityRows("PAYMENT_SUCCEEDED", r) = 1

\* two interleaved deliveries of the same event have both finished
C1_Witness ==
  \E r \in EventPayRefs : \E p, q \in Procs :
    /\ p # q
    /\ SucceededDelivered(p, r) /\ SucceededDelivered(q, r)
    /\ PaymentRows(r) = 1
    /\ ActivityRows("PAYMENT_SUCCEEDED", r) = 1

\* ---------------------------------------------------------------------
\* C2: in every reachable state no two Payment rows share a stripePaymentId;
\* of two deliveries that both reach the insert, the unique index rejects one.
C2_PaymentRefUnique ==
  \A i, j \in DOMAIN payments :
    i # j => payments[i].stripePaymentId # payments[j].stripePaymentId

\* two deliveries for the same reference both reached the insert, no storage
\* fault was injected, and one of them was rejected
C2_Witness ==
  \E p, q \in Procs :
    /\ p # q
    /\ procs[p].req.payment_intent \in EventPayRefs
    /\ procs[p].req.payment_intent = procs[q].req.payment_intent
    /\ procs[p].loc.sub # NULL /\ procs[q].loc.sub # NULL
    /\ Done(p) /\ procs[p].err = "payment.create"
    /\ Done(q) /\ procs[q].err = "none"
    /\ faults = MaxFaults
    /\ PaymentRows(procs[p].req.payment_intent) = 1

\* ---------------------------------------------------------------------
\* Payment rows written after the seed, by status
WebhookPayments(status) ==
  Cardinality({i \in DOMAIN payments :
                 i > Len(SeedPayments) /\ payments[i].status = status})

\* UserActivity rows written after the seed, by action
WebhookActivities(action) ==
  Cardinality({i \in DOMAIN activities :
                 i > Len(SeedActivities) /\ activities[i].action = action})

\* a payment delivery that has inserted its Payment row and not yet its activity
BetweenInserts(p) ==
  /\ procs[p].req.kind \in {"invoice.payment_succeeded", "invoice.payment_failed"}
  /\ procs[p].pc = "userActivity.create"

\* C3: whenever no delivery is between its two inserts, the Payment rows the
\* webhook created and the PAYMENT_SUCCEEDED / PAYMENT_FAILED activities it
\* wrote correspond one to one (a Payment row exists iff its activity does).
C3_PaymentAndActivityAtomic ==
  (\A p \in Procs : ~BetweenInserts(p))
  => /\ WebhookPayments("SUCCEEDED") = WebhookActivities("PAYMENT_SUCCEEDED")
     /\ WebhookPayments("FAILED") = WebhookActivities("PAYMENT_FAILED")

\* ---------------------------------------------------------------------
\* the row holds exactly the values Stripe.Subscription s carries
RowMirrors(row, s) ==
  /\ row.status = s.status
  /\ row.currentPeriodStart = s.current_period_start * 1000
  /\ row.currentPeriodEnd = s.current_period_end * 1000
  /\ row.cancelAtPeriodEnd = s.cancel_at_period_end
  /\ row.canceledAt = (IF s.canceled_at = NULL THEN NULL ELSE s.canceled_at * 1000)
  /\ row.trialStart = (IF s.trial_start = NULL THEN NULL ELSE s.trial_start * 1000)
  /\ row.trialEnd = (IF s.trial_end = NULL THEN NULL ELSE s.trial_end * 1000)

\* C4: the step in which a customer.subscription.created/updated delivery
\* writes its row leaves status, period start/end, cancel flag, canceled-at and
\* trial start/end equal to that snapshot's values, whatever the row held.
C4_SnapshotOverwrites ==
  [][ \A p \in Procs :
        ( /\ At(p, "customer.subscription.updated", "update")
          /\ procs'[p].pc = "done" /\ procs'[p].err = "none" )
        => RowMirrors(subs'[procs[p].loc.sub], procs[p].req.snap) ]_vars

\* two snapshots with different statuses were applied to one row, which now
\* holds the values of one of them and not the status of the other
C4_Witness ==
  \E p, q \in Procs :
    /\ p # q
    /\ Done(p) /\ procs[p].req.kind = "customer.subscription.updated"
    /\ Done(q) /\ procs[q].req.kind = "customer.subscription.updated"
    /\ procs[p].err = "none" /\ procs[q].err = "none"
    /\ procs[p].loc.sub # NULL /\ procs[p].loc.sub = procs[q].loc.sub
    /\ procs[p].req.snap.status # procs[q].req.snap.status
    /\ procs[p].req.snap.canceled_at = NULL
    /\ procs[q].req.snap.canceled_at # NULL
    /\ RowMirrors(subs[procs[p].loc.sub], procs[p].req.snap)

\* ---------------------------------------------------------------------
\* C5: a reactivate whose lookup finds the caller's subscription with status
\* CANCELED and the cancel flag set is rejected at once with a 4xx error: it
\* goes on to no processor call and no write.
C5_ReactivateCanceledRejected ==
  [][ \A p \in Procs :
        LET i == FindFirstOwned(procs[p].req.id, procs[p].req.user)
        IN  ( /\ At(p, "reactivate", "findFirst")
              /\ procs'[p].pc # "findFirst"
              /\ procs'[p].err = "none"
              /\ i # NULL
              /\ subs[i].status = "CANCELED" /\ subs[i].cancelAtPeriodEnd )
            => /\ procs'[p].pc = "done"
               /\ procs'[p].resp \in 400 .. 499 ]_vars

\* ---------------------------------------------------------------------
\* C6: in every reachable state, a Subscription row has canceledAt set if and
\* only if its status is CANCELED or its cancel-at-period-end flag is true.
C6_CanceledAtIff ==
  \A i \in DOMAIN subs :
    (subs[i].canceledAt # NULL)
      <=> (subs[i].status = "CANCELED" \/ subs[i].cancelAtPeriodEnd)

\* ---------------------------------------------------------------------
\* C7: the step in which create's stripe.subscriptions.create call throws adds
\* no Subscription row and no UserActivity entry and ends the request with an
\* error response.
C7_CreateRemoteFailure ==
  [][ \A p \in Procs :
        ( /\ At(p, "create", "subscriptions.create")
          /\ procs'[p].pc = "done" )
        => /\ subs' = subs
           /\ activities' = activities
           /\ procs'[p].resp >= 400 ]_vars

\* a create that got as far as the create-subscription call and failed there
C7_Witness ==
  \E p \in Procs :
    /\ Done(p) /\ procs[p].req.kind = "create"
    /\ procs[p].err = "subscriptions.create"
    /\ procs[p].resp = 500
    /\ \A i \in DOMAIN subs : subs[i].userId # procs[p].req.user
    /\ \A i \in DOMAIN activities : activities[i].userId # procs[p].req.user

\* ---------------------------------------------------------------------
\* C8: when the only request so far is a create that ended because one of its
\* processor calls threw, the persisted state equals the state before it, the
\* user's stripeCustomerId included.
C8_CreateNoPartialCommit ==
  \A p \in Procs :
    ( /\ nreq = 1
      /\ Done(p) /\ procs[p].req.kind = "create"
      /\ procs[p].err \in StripeCalls )
    => /\ users[procs[p].req.user] = procs[p].req.custAtAuth
       /\ subs = << SeedSubscription >>
       /\ payments = SeedPayments
       /\ activities = SeedActivities

\* ---------------------------------------------------------------------
\* processor subscription r was created by a create whose local insert threw
Orphaned(r) ==
  \E p \in Procs :
    /\ Done(p) /\ procs[p].req.kind = "create"
    /\ procs[p].err = "subscription.create"
    /\ procs[p].loc.stripeSub = r

\* C9: when create's local insert failed after the processor created
\* subscription r, a customer.subscription.created/updated delivery for r that
\* is processed afterwards leaves a local row for r.
C9_OrphanReconciled ==
  [][ \A q \in Procs :
        ( /\ At(q, "customer.subscription.updated", "findUnique")
          /\ Orphaned(procs[q].req.ref)
          /\ procs'[q].pc = "done" /\ procs'[q].err = "none" )
        => \E i \in DOMAIN subs' :
             subs'[i].stripeSubscriptionId = procs[q].req.ref ]_vars

\* ---------------------------------------------------------------------
\* C10: the step in which the processor call of cancel (either mode) or of
\* reactivate throws leaves every Subscription row and the activity log
\* unchanged and ends the request with an error response.
C10_CommandRemoteFailure ==
  [][ \A p \in Procs :
        ( /\ procs[p].req.kind \in {"cancel", "reactivate"}
          /\ procs[p].pc = "stripe"
          /\ procs'[p].pc = "done" )
        => /\ subs' = subs
           /\ activities' = activities
           /\ procs'[p].resp >= 400 ]_vars

\* a cancel and a reactivate both ended by a failed processor call
C10_Witness ==
  \E p, q \in Procs :
    /\ Done(p) /\ procs[p].req.kind = "cancel" /\ procs[p].err = "stripe"
    /\ Done(q) /\ procs[q].req.kind = "reactivate" /\ procs[q].err = "stripe"
    /\ procs[p].resp = 500 /\ procs[q].resp = 500
    /\ subs = << SeedSubscription >>
    /\ activities = SeedActivities

\* ---------------------------------------------------------------------
\* a command of the given kind whose Subscription write has been made
Wrote(q, kind) ==
  /\ procs[q].req.kind = kind
  /\ \/ procs[q].pc = "userActivity.create"
     \/ Done(q) /\ procs[q].err \in {"none", "userActivity.create"}
  /\ procs[q].loc.sub # NULL

\* C11: the write of cancel(id, cancelAtPeriodEnd = true) on a row that is
\* ACTIVE with cancel flag false and canceled-at null (and was read so) leaves
\* it ACTIVE with the flag true and nothing else changed; the write of a
\* reactivate(id) that follows that cancel leaves the row ACTIVE with the flag
\* false and canceled-at null, the values the three fields had before.
C11_CancelReactivateRoundTrip ==
  [][ \A p \in Procs :
        LET i == procs[p].loc.sub
        IN  /\ ( /\ At(p, "cancel", "subscription.update")
                 /\ procs[p].req.cancelAtPeriodEnd
                 /\ procs'[p].pc = "userActivity.create"
                 /\ procs[p].loc.status = "ACTIVE"
                 /\ subs[i].status = "ACTIVE"
                 /\ ~subs[i].cancelAtPeriodEnd
                 /\ subs[i].canceledAt = NULL )
               => subs'[i] = [subs[i] EXCEPT !.cancelAtPeriodEnd = TRUE]
            /\ ( /\ At(p, "reactivate", "subscription.update")
                 /\ procs'[p].pc = "userActivity.create"
                 /\ subs[i].status = "ACTIVE"
                 /\ subs[i].cancelAtPeriodEnd
                 /\ \E q \in Procs : /\ Wrote(q, "cancel")
                                     /\ procs[q].req.cancelAtPeriodEnd
                                     /\ procs[q].loc.sub = i )
               => /\ subs'[i].status = "ACTIVE"
                  /\ ~subs'[i].cancelAtPeriodEnd
                  /\ subs'[i].canceledAt = NULL ]_vars

\* a cancel at period end and a reactivate of the seeded subscription both
\* succeeded, the reactivate last, and the row is as it was seeded
C11_Witness ==
  \E p, q \in Procs :
    /\ Done(p) /\ procs[p].req.kind = "cancel" /\ procs[p].resp = 200
    /\ procs[p].req.cancelAtPeriodEnd
    /\ Done(q) /\ procs[q].req.kind = "reactivate" /\ procs[q].resp = 200
    /\ procs[p].loc.sub = 1 /\ procs[q].loc.sub = 1
    /\ subs[1] = SeedSubscription
    /\ activities[Len(activities)].action = "SUBSCRIPTION_REACTIVATED"

\* ---------------------------------------------------------------------
\* C12: the write of cancel(id, cancelAtPeriodEnd = false) sets the row's
\* status to CANCELED and its canceled-at to the current time, whatever status
\* the row had and was read with, and removes no row.
C12_CancelNow ==
  [][ \A p \in Procs :
        LET i == procs[p].loc.sub
        IN  ( /\ At(p, "cancel", "subscription.update")
              /\ ~procs[p].req.cancelAtPeriodEnd
              /\ procs'[p].pc = "userActivity.create" )
            => /\ subs'[i].status = "CANCELED"
               /\ subs'[i].canceledAt \in Now
               /\ ~subs'[i].cancelAtPeriodEnd
               /\ Len(subs') = Len(subs)
               /\ subs'[i].stripeSubscriptionId = subs[i].stripeSubscriptionId
               /\ subs'[i].userId = subs[i].userId ]_vars

\* an immediate cancel succeeded on a row that a snapshot had made TRIALING
C12_Witness ==
  \E p, q \in Procs :
    /\ Done(q) /\ procs[q].req.kind = "customer.subscription.updated"
    /\ procs[q].err = "none" /\ procs[q].req.snap.status = "TRIALING"
    /\ Done(p) /\ procs[p].req.kind = "cancel" /\ procs[p].resp = 200
    /\ ~procs[p].req.cancelAtPeriodEnd
    /\ procs[p].loc.status = "TRIALING"
    /\ procs[p].loc.sub = procs[q].loc.sub
    /\ subs[procs[p].loc.sub].status = "CANCELED"
    /\ subs[procs[p].loc.sub].canceledAt \in Now

\* ---------------------------------------------------------------------
\* the id names an existing row that belongs to someone other than the caller
OwnedByAnother(p) ==
  /\ procs[p].req.id \in DOMAIN subs
  /\ subs[procs[p].req.id].userId # procs[p].req.user

\* C13: when the lookup of a cancel or reactivate returns without throwing and
\* the id is not a subscription of the caller (it belongs to another user, or
\* no row has it), the request ends there with 404 and nothing read from the
\* row, so both cases answer alike; no processor call follows and no row of
\* any table changes.
C13_ForeignIdNotFound ==
  [][ \A p \in Procs :
        ( /\ procs[p].req.kind \in {"cancel", "reactivate"}
          /\ procs[p].pc = "findFirst"
          /\ procs'[p].pc # "findFirst"
          /\ procs'[p].err = "none"
          /\ \/ OwnedByAnother(p)
             \/ procs[p].req.id \notin DOMAIN subs )
        => /\ procs'[p] = [procs[p] EXCEPT !.pc = "done", !.resp = 404]
           /\ procs'[p].loc = NoLoc
           /\ db' = db
           /\ remote' = remote ]_vars

\* the admin asked to cancel the sample user's subscription and to reactivate
\* an id that no row has; both were answered 404 and nothing changed
C13_Witness ==
  \E p, q \in Procs :
    /\ Done(p) /\ procs[p].req.kind = "cancel" /\ procs[p].req.user = AdminUser
    /\ procs[p].req.id = 1 /\ subs[1].userId = SampleUser
    /\ Done(q) /\ procs[q].req.kind = "reactivate" /\ procs[q].req.user = AdminUser
    /\ procs[q].req.id \notin DOMAIN subs
    /\ procs[p].resp = 404 /\ procs[q].resp = 404
    /\ procs[p].err = procs[q].err /\ procs[p].loc = procs[q].loc
    /\ subs = << SeedSubscription >>
    /\ activities = SeedActivities

\* ---------------------------------------------------------------------
\* C14: a delivery whose signature does not verify is answered 400 in the step
\* that receives it, with no handler entered (nothing looked up, no step
\* after it) and no User, Subscription, Payment or UserActivity row changed.
C14_UnverifiedRejected ==
  [][ \A p \in Procs :
        ( /\ procs'[p] # procs[p]
          /\ ~procs'[p].req.sig )
        => /\ procs[p].pc = "idle"
           /\ procs'[p].pc = "done"
           /\ procs'[p].resp = 400
           /\ procs'[p].loc = NoLoc
           /\ db' = db
           /\ remote' = remote ]_vars

\* every request so far failed verification and the tables are as seeded
C14_Witness ==
  /\ nreq = MaxRequests
  /\ \A p \in Procs : ~procs[p].req.sig /\ Done(p) /\ procs[p].resp = 400
  /\ users[SampleUser] = CusSample /\ users[AdminUser] = NULL
  /\ subs = << SeedSubscription >>
  /\ payments = SeedPayments
  /\ activities = SeedActivities

\* ---------------------------------------------------------------------
\* a webhook delivery that passed signature verification
VerifiedDelivery(p) ==
  /\ procs[p].req.kind \in HandledTypes \cup {"charge.refunded"}
  /\ procs[p].req.sig

\* C15: every delivery that passed signature verification is answered
\* { received: true } (200) when it ends, also when its body is malformed or a
\* storage call of its handler threw.
C15_VerifiedAcknowledged ==
  \A p \in Procs :
    (VerifiedDelivery(p) /\ Done(p)) => procs[p].resp = 200

\* ---------------------------------------------------------------------
\* request kinds that are not deliveries of an unhandled event type
KnownKinds == HandledTypes \cup {"create", "cancel", "reactivate", "unverified", "none"}

\* C16: the step that receives a verified delivery whose event type has no
\* case in the switch answers it 200 at once and changes no row of any table
\* and nothing at the processor.
C16_UnknownTypeNoOp ==
  [][ \A p \in Procs :
        ( /\ procs[p].pc = "idle"
          /\ procs'[p].pc # "idle"
          /\ procs'[p].req.kind \notin KnownKinds )
        => /\ procs'[p].pc = "done"
           /\ procs'[p].resp = 200
           /\ procs'[p].err = "none"
           /\ db' = db
           /\ remote' = remote ]_vars

\* two charge.refunded deliveries, one of them without its data member, were
\* acknowledged and the tables are as seeded
C16_Witness ==
  \E p, q \in Procs :
    /\ procs[p].req.kind = "charge.refunded" /\ procs[p].req.data
    /\ procs[q].req.kind = "charge.refunded" /\ ~procs[q].req.data
    /\ Done(p) /\ procs[p].resp = 200
    /\ Done(q) /\ procs[q].resp = 200
    /\ subs = << SeedSubscription >>
    /\ payments = SeedPayments
    /\ activities = SeedActivities

\* ---------------------------------------------------------------------
\* no Subscription row carries the external reference
NoLocalRow(ref) ==
  \A i \in DOMAIN subs : subs[i].stripeSubscriptionId # ref

PaymentKinds == {"invoice.payment_succeeded", "invoice.payment_failed"}

\* C17: a payment-succeeded or payment-failed delivery whose invoice names no
\* subscription ends in the step that receives it, and one whose reference
\* matches no Subscription row ends in its lookup step; either way it is
\* answered 200 and no row of any table is created or changed.
C17_PaymentUnknownSubNoOp ==
  [][ \A p \in Procs :
        LET r == procs'[p].req
        IN  ( /\ r.kind \in PaymentKinds /\ r.data
              /\ procs'[p] # procs[p]
              /\ NoLocalRow(r.ref)
              /\ \/ procs[p].pc = "findUnique"
                 \/ procs[p].pc = "idle" /\ ~Truthy(r.ref) )
            => /\ procs'[p].pc = "done"
               /\ procs'[p].resp = 200
               /\ db' = db ]_vars

\* a payment-failed delivery for a subscription this system never stored and
\* a payment-succeeded delivery without a subscription were both looked at
\* and acknowledged; no Payment row and no activity was added
C17_Witness ==
  \E p, q \in Procs :
    /\ procs[p].req.kind = "invoice.payment_failed"
    /\ Truthy(procs[p].req.ref) /\ NoLocalRow(procs[p].req.ref)
    /\ Done(p) /\ procs[p].resp = 200 /\ procs[p].err = "none"
    /\ procs[q].req.kind = "invoice.payment_succeeded"
    /\ procs[q].req.ref = NULL
    /\ Done(q) /\ procs[q].resp = 200
    /\ payments = SeedPayments
    /\ activities = SeedActivities

\* ---------------------------------------------------------------------
\* C18: a customer.subscription.created/updated delivery whose reference has
\* no Subscription row ends in its lookup step: it is answered 200, no row is
\* created and no existing row changes.
C18_SnapshotUnknownSubNoOp ==
  [][ \A p \in Procs :
        ( /\ At(p, "customer.subscription.updated", "findUnique")
          /\ procs'[p] # procs[p]
          /\ NoLocalRow(procs[p].req.ref) )
        => /\ procs'[p].pc = "done"
           /\ procs'[p].resp = 200
           /\ db' = db ]_vars

\* a well-formed snapshot for a subscription this system never stored was
\* acknowledged and the Subscription table is as seeded
C18_Witness ==
  \E p \in Procs :
    /\ procs[p].req.kind = "customer.subscription.updated"
    /\ procs[p].req.snap \in Snapshots
    /\ NoLocalRow(procs[p].req.ref)
    /\ Done(p) /\ procs[p].resp = 200 /\ procs[p].err = "none"
    /\ procs[p].loc.sub = NULL
    /\ subs = << SeedSubscription >>

\* ---------------------------------------------------------------------
\* a finished delivery of invoice.payment_failed whose subscription was found
FailedDelivered(p) ==
  /\ Done(p)
  /\ procs[p].req.kind = "invoice.payment_failed"
  /\ procs[p].loc.sub # NULL

\* C19: when the only requests so far are one or more finished deliveries of
\* one invoice.payment_failed event for a known subscription (with or without
\* a payment intent), there is exactly one FAILED Payment row and exactly one
\* PAYMENT_FAILED activity.  Storage does not throw here (SpecNoFault).
C19_FailedOnce ==
  \A p \in Procs :
    ( /\ FailedDelivered(p)
      /\ \A q \in Procs :
           \/ procs[q].pc = "idle"
           \/ FailedDelivered(q) /\ procs[q].req = procs[p].req )
    => /\ WebhookPayments("FAILED") = 1
       /\ WebhookActivities("PAYMENT_FAILED") = 1

\* ---------------------------------------------------------------------
\* C20: when the UserActivity insert of create, cancel or reactivate ends the
\* request (its processor call and Subscription write already made), the
\* request reports success, whether or not the insert threw.
C20_ActivityFailureSwallowed ==
  [][ \A p \in Procs :
        ( /\ procs[p].req.kind \in {"create", "cancel", "reactivate"}
          /\ procs[p].pc = "userActivity.create"
          /\ procs'[p].pc = "done" )
        => procs'[p].resp = 200 ]_vars

\* ---------------------------------------------------------------------
CommandKinds == {"create", "cancel", "reactivate"}

\* the storage calls of the subscription commands
StorageCalls == {"plan.findUnique", "user.update", "subscription.create",
                 "findFirst", "subscription.update", "userActivity.create"}

\* C21: a command that ended because a processor call threw and a command of
\* the same kind that ended because a storage call threw give their callers
\* different responses.
C21_RemoteFailureDistinct ==
  \A p, q \in Procs :
    ( /\ Done(p) /\ Done(q)
      /\ procs[p].req.kind \in CommandKinds
      /\ procs[q].req.kind = procs[p].req.kind
      /\ procs[p].err \in StripeCalls
      /\ procs[q].err \in StorageCalls )
    => procs[p].resp # procs[q].resp

\* ---------------------------------------------------------------------
\* the audit action of each command
CommandAction(kind) ==
  CASE kind = "create" -> "SUBSCRIPTION_CREATED"
    [] kind = "cancel" -> "SUBSCRIPTION_CANCELED"
    [] kind = "reactivate" -> "SUBSCRIPTION_REACTIVATED"

\* finished commands of user u and the given kind that made their Subscription write
Completed(u, kind) ==
  {p \in Procs : Done(p) /\ Wrote(p, kind) /\ procs[p].req.user = u}

\* audit entries of user u with the given action written after the seed
AuditEntries(u, action) ==
  {i \in DOMAIN activities :
     i > Len(SeedActivities) /\ activities[i].userId = u /\ activities[i].action = action}

\* C22: for every user and every command kind, the audit entries of that
\* kind's action are as many as that user's finished commands of the kind
\* that made their Subscription write: one entry for each, none for a command
\* that ended earlier.  Storage does not throw here (SpecNoFault).
C22_OneActivityPerCommand ==
  \A u \in Users : \A kind \in CommandKinds :
    Cardinality(AuditEntries(u, CommandAction(kind))) = Cardinality(Completed(u, kind))

\* the sample user canceled their subscription (one entry written) and the
\* admin's create ended at a failed processor call (no entry written)
C22_Witness ==
  \E p, q \in Procs :
    /\ Done(p) /\ procs[p].req.kind = "cancel" /\ procs[p].resp = 200
    /\ procs[p].req.user = SampleUser
    /\ Cardinality(AuditEntries(SampleUser, "SUBSCRIPTION_CANCELED")) = 1
    /\ Done(q) /\ procs[q].req.kind = "create" /\ procs[q].req.user = AdminUser
    /\ procs[q].err \in StripeCalls
    /\ AuditEntries(AdminUser, "SUBSCRIPTION_CREATED") = {}

\* ---------------------------------------------------------------------
\* the local Subscription row that carries the external reference
RowOf(ref) == CHOOSE i \in DOMAIN subs : subs[i].stripeSubscriptionId = ref

\* no Payment row carries the reference
NoPayment(ref) == \A i \in DOMAIN payments : payments[i].stripePaymentId # ref

\* C23: when storage does not throw (SpecNoFault), the insert step of an
\* invoice.payment_succeeded delivery for a known subscription, taken while no
\* Payment has its reference, appends exactly one Payment whose reference,
\* amount and currency are the event's payment intent, amount paid and
\* currency, with status SUCCEEDED and the userId and id of the local
\* subscription; its next step appends exactly one PAYMENT_SUCCEEDED activity
\* for that owner and acknowledges the delivery.
C23_SucceededRow ==
  [][ \A p \in Procs :
        LET r == procs[p].req
        IN  /\ ( /\ At(p, "invoice.payment_succeeded", "payment.create")
                 /\ procs'[p] # procs[p]
                 /\ NoPayment(r.payment_intent) )
               => /\ payments' = Append(payments,
                       [stripePaymentId |-> r.payment_intent, amount |-> r.amount_paid,
                        currency |-> r.currency, status |-> "SUCCEEDED",
                        userId |-> subs[RowOf(r.ref)].userId,
                        subscriptionId |-> RowOf(r.ref)])
                  /\ activities' = activities
                  /\ procs'[p].pc = "userActivity.create"
            /\ ( /\ At(p, "invoice.payment_succeeded", "userActivity.create")
                 /\ procs'[p] # procs[p] )
               => /\ activities' = Append(activities,
                       [userId |-> subs[RowOf(r.ref)].userId,
                        action |-> "PAYMENT_SUCCEEDED", ref |-> r.payment_intent])
                  /\ payments' = payments
                  /\ procs'[p].pc = "done" /\ procs'[p].resp = 200 ]_vars

\* one delivery for the seeded subscription has finished: the Payment table is
\* the seed plus its row, the activity log the seed plus its entry
C23_Witness ==
  \E p \in Procs : \E r \in EventPayRefs :
    /\ SucceededDelivered(p, r) /\ procs[p].err = "none"
    /\ procs[p].req.ref = SubSample
    /\ payments = Append(SeedPayments,
          [stripePaymentId |-> r, amount |-> ProAmount, currency |-> "usd",
           status |-> "SUCCEEDED", userId |-> SampleUser, subscriptionId |-> 1])
    /\ activities = Append(SeedActivities,
          [userId |-> SampleUser, action |-> "PAYMENT_SUCCEEDED", ref |-> r])

\* ---------------------------------------------------------------------
\* p is at a write that cancels at once: the deleted event's, or an immediate cancel's
CancelingWrite(p) ==
  \/ At(p, "customer.subscription.deleted", "update")
  \/ At(p, "cancel", "subscription.update") /\ ~procs[p].req.cancelAtPeriodEnd

\* C24: no step removes a Subscription row: every row of the state before is
\* in the state after under the same id, with its external reference, owner
\* and plan; and a step of customer.subscription.deleted or of an immediate
\* cancel that changes the table changes one row, to status CANCELED, touching
\* only its canceled-at and cancel flag besides.
C24_NeverRemoved ==
  [][ /\ Len(subs') >= Len(subs)
      /\ \A i \in DOMAIN subs :
           /\ subs'[i].stripeSubscriptionId = subs[i].stripeSubscriptionId
           /\ subs'[i].userId = subs[i].userId
           /\ subs'[i].planId = subs[i].planId
      /\ \A p \in Procs :
           (CancelingWrite(p) /\ procs'[p] # procs[p] /\ subs' # subs)
           => \E i \in DOMAIN subs :
                subs' = [subs EXCEPT ![i].status = "CANCELED",
                                     ![i].canceledAt = subs'[i].canceledAt,
                                     ![i].cancelAtPeriodEnd = subs'[i].cancelAtPeriodEnd] ]_vars

\* the seeded subscription was canceled at once by its owner and a
\* customer.subscription.deleted event for it was applied; the row is still
\* there, CANCELED
C24_Witness ==
  \E p, q \in Procs :
    /\ Done(p) /\ procs[p].req.kind = "cancel" /\ procs[p].resp = 200
    /\ ~procs[p].req.cancelAtPeriodEnd /\ procs[p].loc.sub = 1
    /\ Done(q) /\ procs[q].req.kind = "customer.subscription.deleted"
    /\ procs[q].req.ref = SubSample /\ procs[q].err = "none"
    /\ Len(subs) = 1
    /\ subs[1].stripeSubscriptionId = SubSample
    /\ subs[1].status = "CANCELED"

\* ---------------------------------------------------------------------
\* C25: the write of cancel(id, cancelAtPeriodEnd = true) leaves the row's
\* stored status as it is at that moment, also when a snapshot changed it
\* after the command read the row.
C25_CancelKeepsStatus ==
  [][ \A p \in Procs :
        ( /\ At(p, "cancel", "subscription.update")
          /\ procs[p].req.cancelAtPeriodEnd
          /\ procs'[p].pc = "userActivity.create" )
        => subs'[procs[p].loc.sub].status = subs[procs[p].loc.sub].status ]_vars

\* ---------------------------------------------------------------------
\* C26: when a create has returned successfully and the snapshot event the
\* processor emitted for its subscription has been processed without error,
\* whichever of the local insert and the delivery came first, the local row's
\* status is the one that event carried.
C26_CreateConverges ==
  \A p, q \in Procs :
    ( /\ Done(p) /\ procs[p].req.kind = "create" /\ procs[p].resp = 200
      /\ Done(q) /\ procs[q].req.kind = "customer.subscription.updated"
      /\ procs[q].req.data /\ procs[q].req.snap \in Snapshots
      /\ procs[q].err = "none"
      /\ procs[q].req.ref = procs[p].loc.stripeSub )
    => subs[procs[p].loc.sub].status = procs[q].req.snap.status

\* ---------------------------------------------------------------------
\* C27: once an invoice.payment_succeeded delivery for a known subscription
\* has finished, a Payment row with its payment reference and status
\* SUCCEEDED exists, also when a payment-failed event used the reference
\* before.  Storage does not throw here (SpecNoFault).
C27_SucceededRecorded ==
  \A p \in Procs : \A r \in EventPayRefs :
    SucceededDelivered(p, r)
    => \E i \in DOMAIN payments :
         payments[i].stripePaymentId = r /\ payments[i].status = "SUCCEEDED"

\* ---------------------------------------------------------------------
\* processor customers created for user u
CustomersOf(u) == {c \in DOMAIN stripeCusts : stripeCusts[c] = u}

\* C28: while the only requests are create commands, the processor holds at
\* most one customer created for each user, and once no create is in flight
\* every Subscription row's processor subscription was created under the
\* customer its owner's stripeCustomerId names.
C28_OneCustomerPerUser ==
  (\A p \in Procs : procs[p].req.kind \in {"none", "create"})
  => /\ \A u \in Users : Cardinality(CustomersOf(u)) <= 1
     /\ (\A p \in Procs : ~InFlight(p))
        => \A i \in DOMAIN subs :
             stripeSubs[subs[i].stripeSubscriptionId] = users[subs[i].userId]

\* ---------------------------------------------------------------------
\* C29: the step of a customer.subscription.deleted delivery ends it with
\* 200.  If a row has its reference and the update does not throw, that row
\* gets status CANCELED and canceled-at the processing time and nothing else
\* in it changes (period bounds, cancel flag, trial bounds); if no row has the
\* reference, no row changes and none is created.  No other table changes.
C29_DeletedEvent ==
  [][ \A p \in Procs :
        ( /\ At(p, "customer.subscription.deleted", "update")
          /\ procs'[p] # procs[p] )
        => /\ procs'[p].pc = "done" /\ procs'[p].resp = 200
           /\ users' = users /\ payments' = payments /\ activities' = activities
           /\ NoLocalRow(procs[p].req.ref) => subs' = subs
           /\ (~NoLocalRow(procs[p].req.ref) /\ procs'[p].err = "none")
              => \E t \in Now :
                   subs' = [subs EXCEPT ![RowOf(procs[p].req.ref)].status = "CANCELED",
                                        ![RowOf(procs[p].req.ref)].canceledAt = t] ]_vars

\* a deleted event for the seeded subscription left it CANCELED with its
\* seeded period, and one for a subscription never stored changed nothing
C29_Witness ==
  \E p, q \in Procs :
    /\ Done(p) /\ procs[p].req.kind = "customer.subscription.deleted"
    /\ procs[p].req.ref = SubSample /\ procs[p].err = "none"
    /\ Done(q) /\ procs[q].req.kind = "customer.subscription.deleted"
    /\ NoLocalRow(procs[q].req.ref)
    /\ procs[q].resp = 200 /\ procs[q].err = "update"
    /\ faults = MaxFaults
    /\ \E t \in Now :
         subs = << [SeedSubscription EXCEPT !.status = "CANCELED", !.canceledAt = t] >>

\* ---------------------------------------------------------------------
\* C30: in every state of the auth store, isAuthenticated is true only if
\* token and user are both non-null.
C30_AuthenticatedHasToken ==
  store.isAuthenticated => (store.token # NULL /\ store.user # NULL)

====
